---- MODULE Spec2Model ----
(***************************************************************************)
(* Model of pdf_bot.py: the accumulation store all_processed_pages, the    *)
(* files under TEMP_DIR, the update handlers handle_pdf,                   *)
(* send_combined_pdf, clear_pages, status and health_check, and the        *)
(* keep_alive_worker thread that sweeps TEMP_DIR.                          *)
(*                                                                         *)
(* The Application is built without concurrent_updates, so the event loop  *)
(* runs one handler at a time: pc is the position of that handler.  The    *)
(* keep_alive_worker is a real thread and the clock is the environment:    *)
(* both interleave with the handler at every step.                         *)
(*                                                                         *)
(* Time is in milliseconds.  time.time() is now / 1000.                    *)
(*                                                                         *)
(* Inputs of the environment: the declared size, the outcome of get_file,  *)
(* download_to_drive and reply_document, which rasterizer configurations   *)
(* work, the number of pages, the page whose crop/save raises, the size of *)
(* the composed document.  In Spec an iteration of create_pdf_from_images  *)
(* raises only when the image file is gone.                                *)
(***************************************************************************)
EXTENDS Integers, Sequences, FiniteSets, TLC

\* ---------------------------------------------------------------- bounds
MaxPages == 2
MaxIngests == 2
MaxExports == 2
MaxMs == 1
MaxHours == 1
MaxDim == 9

\* ------------------------------------------------------ program constants
InboundLimit == 20 * 1024 * 1024
OutboundLimit == 50 * 1024 * 1024
SweepAge == 3600

\* the clock advances by a millisecond, or by just over the sweep's age threshold
Ages == SweepAge * 1000 + 1

\* declared sizes of incoming documents and sizes of composed documents
DeclaredSizes == {InboundLimit, InboundLimit + 1}
ComposedSizes == {OutboundLimit, OutboundLimit + 1}

\* ------------------------------------------------------------ file names
\* A file of TEMP_DIR is named by the pieces its name is formatted from.
\*   quadrant_{ts}_{i}.png            kind "quadrant", ts in ms, page i
\*   quadrant_{ts}_{i}_full_{j}.png   kind "full", resized copy made by the composer
\*   temp_{sec}_{file_name}           kind "temp", ts in seconds
\*   combined_quadrants_{sec}.pdf     kind "combined", ts in seconds
QuadrantPath(timestamp, i) == [kind |-> "quadrant", ts |-> timestamp, i |-> i, j |-> -1]

ResizedPath(img_path, i) == [kind |-> "full", ts |-> img_path.ts, i |-> img_path.i, j |-> i]

TempPath(t) == [kind |-> "temp", ts |-> t \div 1000, i |-> -1, j |-> -1]

CombinedPath(t) == [kind |-> "combined", ts |-> t \div 1000, i |-> -1, j |-> -1]

NoPath == [kind |-> "none", ts |-> -1, i |-> -1, j |-> -1]

\* no document: a document's pages are store entries, never NoPath
NoDoc == <<NoPath>>

\* file.startswith('quadrant_') or file.startswith('temp_')
SweepMatches(p) == p.kind \in {"quadrant", "full", "temp"}

\* file.startswith('quadrant_') and file.endswith('.png')
ClearMatches(p) == p.kind \in {"quadrant", "full"}

\* ------------------------------------------------------------ file system
Exists(f, p) == p \in DOMAIN f

\* writing a file creates it or overwrites it; its mtime is the current time
WriteFile(f, p, t) == [q \in (DOMAIN f) \cup {p} |-> IF q = p THEN t ELSE f[q]]

RemoveFile(f, p) == [q \in (DOMAIN f) \ {p} |-> f[q]]

\* if path and os.path.exists(path): os.remove(path)
RemoveIfExists(f, p) == IF p # NoPath /\ Exists(f, p) THEN RemoveFile(f, p) ELSE f

RECURSIVE WriteAll(_, _, _)
WriteAll(f, paths, t) ==
    IF paths = <<>> THEN f
    ELSE WriteAll(WriteFile(f, Head(paths), t), Tail(paths), t)

\* ------------------------------------------------------- code fragments
\* a size check that also turns away a document of exactly the limit
TooLargeToReceiveAtLimit(file_size) == file_size >= InboundLimit

\* handle_pdf line 191: file_size > 20 * 1024 * 1024
TooLargeToReceive(file_size) == file_size > InboundLimit

\* a size check that lets every document through
TooLargeToSendNever(file_size) == FALSE

\* send_combined_pdf line 284: file_size > 50 * 1024 * 1024
TooLargeToSend(file_size) == file_size > OutboundLimit

\* an empty check that never fires
IsEmptyNever(pages) == FALSE

\* send_combined_pdf line 269: not all_processed_pages
IsEmpty(pages) == pages = <<>>

\* extract_top_left_quadrant lines 102-111: the rasterizer configurations
\* (default, /opt/homebrew/bin, /usr/bin) are tried in this order; works[c]
\* says whether configuration c renders the document.  The result is the
\* configuration that rendered it, or 0 when the third one raised too.
FirstWorking(works) ==
    IF works[1] THEN 1 ELSE IF works[2] THEN 2 ELSE IF works[3] THEN 3 ELSE 0

\* lines 105-111 and 248-249: the configurations whose failure is in the
\* error handle_pdf reports.  The exceptions of the first two are caught and
\* dropped; str(e) is the message of the third alone.
ReportedFailures(readable, works) ==
    IF readable /\ FirstWorking(works) # 0 THEN {} ELSE {3}

\* number of convert_from_path calls made
Tried(works) == IF FirstWorking(works) = 0 THEN 3 ELSE FirstWorking(works)

\* extract_top_left_quadrant lines 118-132: the paths of the first n pages
QuadrantImages(timestamp, n) == [k \in 1..n |-> QuadrantPath(timestamp, k - 1)]

\* an extend that loses the last page of the batch
AppendedShort(pages, quadrant_images, raised) ==
    IF raised THEN pages
    ELSE pages \o SubSeq(quadrant_images, 1, Len(quadrant_images) - 1)

\* an extend that also takes the pages saved before the extraction raised
AppendedPartial(pages, quadrant_images, raised) == pages \o quadrant_images

\* an extend that inserts the pages one by one at the old end of the store
AppendedReversed(pages, quadrant_images, raised) ==
    IF raised THEN pages
    ELSE pages \o [k \in 1..Len(quadrant_images) |->
                      quadrant_images[Len(quadrant_images) + 1 - k]]

\* handle_pdf lines 230-233: extend the store with the batch, unless
\* extract_top_left_quadrant raised
Appended(pages, quadrant_images, raised) ==
    IF raised THEN pages ELSE pages \o quadrant_images

\* a send that empties the store once the document has gone out
StoreAfterSendCleared(pages, sent) == IF sent THEN <<>> ELSE pages

\* send_combined_pdf lines 264-325: all_processed_pages is read, never
\* assigned, whether the document went out or not
StoreAfterSend(pages, sent) == pages

\* status line 353, handle_pdf line 239, send_combined_pdf line 297:
\* len(all_processed_pages)
PageCount(pages) == Len(pages)

\* a page_count taken after the list is cleared
ClearedCountLate(pages) == 0

\* clear_pages line 332: page_count is taken before the list is cleared
ClearedCount(pages) == Len(pages)

\* keep_alive_worker lines 66-68: file_age > 3600, with times in ms
OlderThanAnHour(current_timestamp, mtime) == current_timestamp - mtime > SweepAge * 1000

\* clear_pages lines 337-338: the entries of os.listdir the loop acts on
ClearListing(f) == {p \in DOMAIN f : ClearMatches(p)}

\* --------------------------------------------------------------- the crop
NoSize == <<>>
NoCrop == [box |-> <<>>, size |-> NoSize]

\* a quadrant that keeps the odd pixel
QuadrantBoxRoundedUp(width, height) == <<0, 0, (width + 1) \div 2, (height + 1) \div 2>>

\* lines 120-127: (0, 0, width // 2, height // 2)
QuadrantBox(width, height) == <<0, 0, width \div 2, height \div 2>>

\* PIL Image.crop((left, upper, right, lower)): the size of the result
Crop(box) == <<box[3] - box[1], box[4] - box[2]>>

\* lines 119-127 for one page
Quadrant(size) ==
    LET box == QuadrantBox(size[1], size[2])
    IN  [box |-> box, size |-> Crop(box)]

\* ----------------------------------------------------------- the restarts
\* line 459
max_retries == 5

\* what run_polling can raise besides KeyboardInterrupt
Exceptions == {"NetworkError", "TimedOut", "RuntimeError"}

Min(a, b) == IF a < b THEN a ELSE b

\* a wait that doubles with every crash
WaitTimeDoubling(count) == Min(60 * 2 ^ (count - 1), 300)

\* line 481: min(60 * retry_count, 300)
WaitTime(count) == Min(60 * count, 300)

VARIABLES
    all_processed_pages,  \* the store: sequence of quadrant paths
    files,                \* TEMP_DIR: existing path -> mtime (ms)
    now,                  \* the clock (ms)
    pc,                   \* position of the handler the event loop is running
    declared,             \* handle_pdf: file_size, the declared size of the document
    pdf_path,             \* handle_pdf: the downloaded file, or NoPath
    image_idx,            \* create_pdf_from_images: number of images iterated
    doc,                  \* create_pdf_from_images: pages emitted by showPage
    output_path,          \* create_pdf_from_images: the file the canvas saves to
    result_pdf_path,      \* send_combined_pdf: the composed file, or NoPath
    file_size,            \* send_combined_pdf: os.path.getsize of the composed file
    outcome,              \* send_combined_pdf: what the call will report
    page_count,           \* clear_pages: the count taken before the clear
    clear_list,           \* clear_pages: entries of listdir not yet visited
    clear_file,           \* clear_pages: the file found to exist, about to be removed
    last,                 \* report of the last completed handler call
    created,              \* history: files written by the call in progress
    entry,                \* history: the store when the call in progress began
    owner,                \* history: for each store entry, its page number and the
                          \*          number of pages rendered by its ingestion
    nIngest,              \* history: number of handle_pdf calls begun
    nExport,              \* history: number of send_combined_pdf calls begun
    statsSeen,            \* history: the count status last reported, -1 once the store changed
    cleared,              \* history: the count clear_pages reported, -1 once pages were appended
    firstExport,          \* history: the first document composed since the store last
                          \*          changed, or NoDoc
    img,                  \* extract_top_left_quadrant: img.size of a rendered page
    quadrant,             \* extract_top_left_quadrant: the crop box and quadrant.size
    again,                \* the same for a second extraction of the same page
    main_pc,              \* main: position in the restart loop of lines 459-488
    retry_count,          \* main: retry_count
    wait_time,            \* main: wait_time
    starts,               \* history: number of run_polling calls
    slept,                \* history: the waits of time.sleep, in order
    crashes,              \* history: the exceptions run_polling ended with, in order
    uncaught                \* history: the exception main ended with, or "none"

botVars == <<all_processed_pages, files, now, pc, declared, pdf_path, image_idx, doc,
             output_path, result_pdf_path, file_size, outcome, page_count,
             clear_list, clear_file, last, created,
             entry, owner, nIngest, nExport, statsSeen, cleared, firstExport>>

cropVars == <<img, quadrant, again>>

mainVars == <<main_pc, retry_count, wait_time, starts, slept, crashes, uncaught>>

vars == <<botVars, cropVars, mainVars>>

storeHistory == <<owner, statsSeen, cleared, firstExport>>

exportVars == <<image_idx, doc, output_path, result_pdf_path, file_size, outcome>>

clearVars == <<page_count, clear_list, clear_file>>

\* ----------------------------------------------------------------- reports
\* what a handler call told the user, with the history the properties need
Report(op, result, n, total, before, made) ==
    [op |-> op, result |-> result, n |-> n, total |-> total,
     before |-> before, created |-> made, doc |-> <<>>, sent |-> FALSE,
     size |-> 0, stats |-> -1, output |-> NoPath, tried |-> 0, errors |-> {}]

NoReport == Report("none", "none", 0, 0, <<>>, {})

\* the module-level state of lines 38-42 and no handler running
InitBot ==
    /\ all_processed_pages = <<>>
    /\ files = <<>>
    /\ now = 0
    /\ pc = "idle"
    /\ declared = 0
    /\ pdf_path = NoPath
    /\ image_idx = 0
    /\ doc = <<>>
    /\ output_path = NoPath
    /\ result_pdf_path = NoPath
    /\ file_size = 0
    /\ outcome = "none"
    /\ page_count = 0
    /\ clear_list = {}
    /\ clear_file = NoPath
    /\ last = NoReport
    /\ created = {}
    /\ entry = <<>>
    /\ owner = <<>>
    /\ nIngest = 0
    /\ nExport = 0
    /\ statsSeen = -1
    /\ cleared = -1
    /\ firstExport = NoDoc

\* no page at hand
InitNoPage ==
    /\ img = NoSize
    /\ quadrant = NoCrop
    /\ again = NoCrop

\* lines 459-460, before the loop
InitMain ==
    /\ main_pc = "while"
    /\ retry_count = 0
    /\ wait_time = 0
    /\ starts = 0
    /\ slept = <<>>
    /\ crashes = <<>>
    /\ uncaught = "none"

\* handlers run inside run_polling: main is in its first run_polling call
InitPolling ==
    /\ main_pc = "polling"
    /\ retry_count = 0
    /\ wait_time = 0
    /\ starts = 1
    /\ slept = <<>>
    /\ crashes = <<>>
    /\ uncaught = "none"

Init == InitBot /\ InitNoPage /\ InitPolling

\* a handler is entered
Enters(position) ==
    /\ pc' = position
    /\ entry' = all_processed_pages
    /\ created' = {}
    /\ UNCHANGED last

\* a handler returns: its report replaces the previous one
Returns(report) ==
    /\ last' = report
    /\ pc' = "idle"
    /\ entry' = <<>>
    /\ created' = {}

\* the environment: time passes
Tick ==
    /\ \/ now % Ages < MaxMs /\ now' = now + 1
       \/ now \div Ages < MaxHours /\ now' = now + Ages
    /\ UNCHANGED <<all_processed_pages, files, pc, declared, pdf_path, last, created, entry,
                   nIngest, nExport, storeHistory, exportVars, clearVars,
                   cropVars, mainVars>>

\* ---------------------------------------------------------------- handle_pdf
\* lines 188-209: the size check and get_file
handle_pdf_begin ==
    /\ pc = "idle"
    /\ nIngest < MaxIngests
    /\ nIngest' = nIngest + 1
    /\ \E file_sz \in DeclaredSizes, got \in {"ok", "getfile_timeout", "getfile_network"} :
        IF TooLargeToReceive(file_sz)
        THEN /\ Returns([Report("ingest", "too_large", 0, PageCount(all_processed_pages),
                                 all_processed_pages, {})
                          EXCEPT !.size = file_sz])
             /\ declared' = 0
        ELSE IF got # "ok"
        THEN /\ Returns([Report("ingest", got, 0, PageCount(all_processed_pages),
                                 all_processed_pages, {})
                          EXCEPT !.size = file_sz])
             /\ declared' = 0
        ELSE /\ Enters("download")
             /\ declared' = file_sz
    /\ UNCHANGED <<all_processed_pages, files, now, pdf_path, nExport, storeHistory,
                   exportVars, clearVars,
                   cropVars, mainVars>>

\* lines 211-224 and the finally of lines 256-262: download_to_drive.  A
\* download that is cut short may have written part of the file.
handle_pdf_download ==
    /\ pc = "download"
    /\ \E got \in {"ok", "download_timeout", "download_network"}, partial \in BOOLEAN :
        LET path == TempPath(now)
            written == WriteFile(files, path, now)
        IN  IF got = "ok"
            THEN /\ files' = written
                 /\ pdf_path' = path
                 /\ created' = {path}
                 /\ pc' = "extract"
                 /\ UNCHANGED <<last, entry, declared>>
            ELSE /\ files' = RemoveIfExists(IF partial THEN written ELSE files, path)
                 /\ pdf_path' = NoPath
                 /\ declared' = 0
                 /\ Returns([Report("ingest", got, 0, PageCount(all_processed_pages), entry,
                                    IF partial THEN {path} ELSE {})
                             EXCEPT !.size = declared])
    /\ UNCHANGED <<all_processed_pages, now, nIngest, nExport, storeHistory, exportVars, clearVars,
                   cropVars, mainVars>>

\* lines 229-262: extract_top_left_quadrant, the extend, the reply and the
\* finally.  The document has n pages; saving page failAt (0-based) raises,
\* failAt = n meaning that no page raises.  Nothing awaits between the
\* extraction and the reply, so no other handler runs in between.
handle_pdf_extract ==
    /\ pc = "extract"
    /\ \E works \in [1..3 -> BOOLEAN], n \in 1..MaxPages :
       \E failAt \in 0..n :
        LET readable == Exists(files, pdf_path)
            renders == readable /\ FirstWorking(works) # 0
            tried == IF readable THEN Tried(works) ELSE 3
            saved == IF renders THEN failAt ELSE 0
            raised == ~renders \/ failAt < n
            quadrant_images == QuadrantImages(now, saved)
            pages == Appended(all_processed_pages, quadrant_images, raised)
            added == Len(pages) - Len(all_processed_pages)
            made == created \cup {quadrant_images[k] : k \in 1..saved}
            result == IF ~renders THEN "render_error"
                      ELSE IF raised THEN "extract_error" ELSE "ok"
        IN  /\ files' = RemoveIfExists(WriteAll(files, quadrant_images, now), pdf_path)
            /\ all_processed_pages' = pages
            /\ owner' = owner \o [k \in 1..added |-> <<k, n>>]
            /\ statsSeen' = IF added = 0 THEN statsSeen ELSE -1
            /\ cleared' = IF added = 0 THEN cleared ELSE -1
            /\ firstExport' = IF added = 0 THEN firstExport ELSE NoDoc
            /\ Returns([Report("ingest", result, IF raised THEN 0 ELSE Len(quadrant_images),
                               PageCount(pages), entry, made)
                        EXCEPT !.tried = tried, !.size = declared,
                               !.errors = ReportedFailures(readable, works)])
    /\ pdf_path' = NoPath
    /\ declared' = 0
    /\ UNCHANGED <<now, nIngest, nExport, exportVars, clearVars,
                   cropVars, mainVars>>

\* ------------------------------------------------------- send_combined_pdf
\* lines 264-277 and 136-145: the empty check, then create_pdf_from_images
\* names its output and opens the canvas (nothing is written before save)
send_combined_pdf_begin ==
    /\ pc = "idle"
    /\ nExport < MaxExports
    /\ nExport' = nExport + 1
    /\ IF IsEmpty(all_processed_pages)
       THEN /\ Returns(Report("send", "empty", 0, PageCount(all_processed_pages),
                              all_processed_pages, {}))
            /\ UNCHANGED exportVars
       ELSE /\ Enters("compose")
            /\ output_path' = CombinedPath(now)
            /\ image_idx' = 0
            /\ doc' = <<>>
            /\ UNCHANGED <<result_pdf_path, file_size, outcome>>
    /\ UNCHANGED <<all_processed_pages, files, now, declared, pdf_path, nIngest, storeHistory,
                   clearVars,
                   cropVars, mainVars>>

\* lines 147-173, one iteration.  Image.open raises when the file is gone.
\* faults are the other ways an iteration can raise: "resize_raises" before
\* the resized copy is written, "draw_raises" after it (the removal of the
\* copy is then skipped).  A page is emitted only when showPage is reached.
create_pdf_from_images_step(faults) ==
    /\ pc = "compose"
    /\ image_idx < Len(all_processed_pages)
    /\ LET img_path == all_processed_pages[image_idx + 1]
           resized_path == ResizedPath(img_path, image_idx)
       IN  IF ~Exists(files, img_path)
           THEN UNCHANGED <<files, doc, created>>
           ELSE \E step \in {"drawn"} \cup faults :
                 /\ files' = CASE step = "drawn" ->
                                    RemoveFile(WriteFile(files, resized_path, now), resized_path)
                               [] step = "draw_raises" -> WriteFile(files, resized_path, now)
                               [] OTHER -> files
                 /\ doc' = IF step = "drawn" THEN Append(doc, img_path) ELSE doc
                 /\ created' = IF step = "resize_raises" THEN created
                               ELSE created \cup {resized_path}
    /\ image_idx' = image_idx + 1
    /\ UNCHANGED <<all_processed_pages, now, pc, declared, pdf_path, last, entry, nIngest, nExport,
                   storeHistory, output_path, result_pdf_path, file_size, outcome, clearVars,
                   cropVars, mainVars>>

\* lines 175-286: c.save() writes the document, then its size is checked.
\* The size is an input; a document without pages is never over the limit.
create_pdf_from_images_save ==
    /\ pc = "compose"
    /\ image_idx = Len(all_processed_pages)
    /\ files' = WriteFile(files, output_path, now)
    /\ created' = created \cup {output_path}
    /\ result_pdf_path' = output_path
    /\ firstExport' = IF firstExport = NoDoc THEN doc ELSE firstExport
    /\ \E size \in ComposedSizes :
        /\ doc = <<>> => size = OutboundLimit
        /\ file_size' = size
        /\ IF TooLargeToSend(size)
           THEN pc' = "finally" /\ outcome' = "too_large"
           ELSE pc' = "transmit" /\ UNCHANGED outcome
    /\ UNCHANGED <<all_processed_pages, now, declared, pdf_path, last, entry, nIngest, nExport, owner,
                   statsSeen, cleared, image_idx, doc, output_path, clearVars,
                   cropVars, mainVars>>

\* lines 175-178 raising: c.save() fails, having written part of the file or
\* nothing.  create_pdf_from_images returns nothing, so result_pdf_path stays
\* None and the except of lines 311-317 reports the error.
create_pdf_from_images_raises ==
    /\ pc = "compose"
    /\ image_idx = Len(all_processed_pages)
    /\ \E partial \in BOOLEAN :
        /\ files' = IF partial THEN WriteFile(files, output_path, now) ELSE files
        /\ created' = IF partial THEN created \cup {output_path} ELSE created
    /\ pc' = "finally"
    /\ outcome' = "error"
    /\ UNCHANGED <<all_processed_pages, now, declared, pdf_path, last, entry, nIngest, nExport,
                   storeHistory, image_idx, doc, output_path, result_pdf_path, file_size,
                   clearVars,
                   cropVars, mainVars>>

\* lines 288-309: reply_document
send_combined_pdf_transmit ==
    /\ pc = "transmit"
    /\ \E got \in {"ok", "send_timeout", "send_network"} : outcome' = got
    /\ pc' = "finally"
    /\ UNCHANGED <<all_processed_pages, files, now, declared, pdf_path, last, created, entry,
                   nIngest, nExport, storeHistory, image_idx, doc, output_path,
                   result_pdf_path, file_size, clearVars,
                   cropVars, mainVars>>

\* lines 319-325: the finally.  n is the page count of the caption.
send_combined_pdf_finally ==
    /\ pc = "finally"
    /\ files' = RemoveIfExists(files, result_pdf_path)
    /\ all_processed_pages' = StoreAfterSend(all_processed_pages, outcome = "ok")
    /\ Returns([Report("send", outcome, PageCount(all_processed_pages),
                       PageCount(all_processed_pages), entry, created)
                EXCEPT !.doc = doc, !.sent = (outcome = "ok"), !.size = file_size,
                       !.output = result_pdf_path])
    /\ image_idx' = 0
    /\ doc' = <<>>
    /\ output_path' = NoPath
    /\ result_pdf_path' = NoPath
    /\ file_size' = 0
    /\ outcome' = "none"
    /\ UNCHANGED <<now, declared, pdf_path, nIngest, nExport, storeHistory, clearVars,
                   cropVars, mainVars>>

\* ------------------------------------------------------------- clear_pages
\* lines 327-337: the count, the clear and os.listdir
clear_pages_begin ==
    /\ pc = "idle"
    /\ Enters("clear_loop")
    /\ page_count' = ClearedCount(all_processed_pages)
    /\ all_processed_pages' = <<>>
    /\ owner' = <<>>
    /\ clear_list' = ClearListing(files)
    /\ clear_file' = NoPath
    /\ UNCHANGED <<files, now, declared, pdf_path, nIngest, nExport, statsSeen, cleared,
                   firstExport, exportVars,
                   cropVars, mainVars>>

\* lines 337-340, one entry of the listing: os.path.exists
clear_pages_exists ==
    /\ pc = "clear_loop"
    /\ \E file \in clear_list :
        /\ clear_list' = clear_list \ {file}
        /\ IF Exists(files, file)
           THEN pc' = "clear_remove" /\ clear_file' = file
           ELSE UNCHANGED <<pc, clear_file>>
    /\ UNCHANGED <<all_processed_pages, files, now, declared, pdf_path, page_count, last, created,
                   entry, nIngest, nExport, storeHistory, exportVars,
                   cropVars, mainVars>>

\* line 341: os.remove.  It raises when keep_alive_worker removed the file
\* since the exists check; the except of line 343 then ends the loop.
clear_pages_remove ==
    /\ pc = "clear_remove"
    /\ IF Exists(files, clear_file)
       THEN files' = RemoveFile(files, clear_file) /\ UNCHANGED clear_list
       ELSE clear_list' = {} /\ UNCHANGED files
    /\ clear_file' = NoPath
    /\ pc' = "clear_loop"
    /\ UNCHANGED <<all_processed_pages, now, declared, pdf_path, page_count, last, created, entry,
                   nIngest, nExport, storeHistory, exportVars,
                   cropVars, mainVars>>

\* lines 342-346: the reply
clear_pages_reply ==
    /\ pc = "clear_loop"
    /\ clear_list = {}
    /\ statsSeen' = -1
    /\ cleared' = page_count
    /\ firstExport' = NoDoc
    /\ Returns([Report("clear", "ok", page_count, 0, entry, {})
                EXCEPT !.stats = statsSeen])
    /\ page_count' = 0
    /\ UNCHANGED <<all_processed_pages, files, now, declared, pdf_path, clear_list, clear_file,
                   owner, nIngest, nExport, exportVars,
                   cropVars, mainVars>>

\* ------------------------------------------------------------------ status
\* lines 348-366
status ==
    /\ pc = "idle"
    /\ statsSeen' = PageCount(all_processed_pages)
    /\ Returns(Report("status", "ok", 0, PageCount(all_processed_pages),
                      all_processed_pages, {}))
    /\ UNCHANGED <<all_processed_pages, files, now, declared, pdf_path, nIngest, nExport, owner,
                   cleared, firstExport, exportVars, clearVars,
                   cropVars, mainVars>>

\* lines 368-404: n is the number of temp files, total the accumulated pages
health_check ==
    /\ pc = "idle"
    /\ Returns(Report("health", "ok", Cardinality(DOMAIN files),
                      PageCount(all_processed_pages), all_processed_pages, {}))
    /\ UNCHANGED <<all_processed_pages, files, now, declared, pdf_path, nIngest, nExport, storeHistory,
                   exportVars, clearVars,
                   cropVars, mainVars>>

\* ------------------------------------------------------- keep_alive_worker
\* lines 59-72, one pass of the clean-up: every listed quadrant_ or temp_
\* file whose age exceeds an hour is removed
keep_alive_worker ==
    /\ files' = [q \in {p \in DOMAIN files :
                          ~(SweepMatches(p) /\ OlderThanAnHour(now, files[p]))} |-> files[q]]
    /\ UNCHANGED <<all_processed_pages, now, pc, declared, pdf_path, last, created, entry,
                   nIngest, nExport, storeHistory, exportVars, clearVars,
                   cropVars, mainVars>>

Next ==
    \/ Tick
    \/ handle_pdf_begin
    \/ handle_pdf_download
    \/ handle_pdf_extract
    \/ send_combined_pdf_begin
    \/ create_pdf_from_images_step({})
    \/ create_pdf_from_images_save
    \/ send_combined_pdf_transmit
    \/ send_combined_pdf_finally
    \/ clear_pages_begin
    \/ clear_pages_exists
    \/ clear_pages_remove
    \/ clear_pages_reply
    \/ status
    \/ health_check
    \/ keep_alive_worker

Spec == Init /\ [][Next]_vars

\* The handlers with the composer's own failures: an iteration of
\* create_pdf_from_images may raise although the image file is there, and
\* c.save() may raise.  The clock stands still and the sweep is left out.
NextFaults ==
    \/ handle_pdf_begin
    \/ handle_pdf_download
    \/ handle_pdf_extract
    \/ send_combined_pdf_begin
    \/ create_pdf_from_images_step({"resize_raises", "draw_raises"})
    \/ create_pdf_from_images_save
    \/ create_pdf_from_images_raises
    \/ send_combined_pdf_transmit
    \/ send_combined_pdf_finally
    \/ clear_pages_begin
    \/ clear_pages_exists
    \/ clear_pages_remove
    \/ clear_pages_reply

SpecFaults == Init /\ [][NextFaults]_vars

\* -------------------------------------------- extract_top_left_quadrant, one page
\* a rendered page of any size from 2 x 2 to MaxDim x MaxDim is at hand
InitCrop ==
    /\ InitBot /\ InitMain
    /\ img \in (2..MaxDim) \X (2..MaxDim)
    /\ quadrant = NoCrop
    /\ again = NoCrop

\* lines 118-127 for the page
extract_quadrant ==
    /\ quadrant = NoCrop
    /\ quadrant' = Quadrant(img)
    /\ UNCHANGED <<img, again, botVars, mainVars>>

\* lines 118-127 for the same page once more
extract_quadrant_again ==
    /\ quadrant # NoCrop
    /\ again = NoCrop
    /\ again' = Quadrant(img)
    /\ UNCHANGED <<img, quadrant, botVars, mainVars>>

NextCrop ==
    \/ extract_quadrant
    \/ extract_quadrant_again

SpecCrop == InitCrop /\ [][NextCrop]_vars

\* ------------------------------------------------------- main, lines 459-488
\* line 462: while retry_count < max_retries, then the call of run_polling
main_while ==
    /\ main_pc = "while"
    /\ IF retry_count < max_retries
       THEN main_pc' = "polling" /\ starts' = starts + 1
       ELSE main_pc' = "exited" /\ UNCHANGED starts
    /\ UNCHANGED <<retry_count, wait_time, slept, crashes, uncaught, botVars, cropVars>>

\* lines 464-473: run_polling returns, or KeyboardInterrupt is caught: break
run_polling_ends ==
    /\ main_pc = "polling"
    /\ main_pc' = "exited"
    /\ UNCHANGED <<retry_count, wait_time, starts, slept, crashes, uncaught, botVars, cropVars>>

\* lines 474-488: run_polling raises an Exception
run_polling_crashes ==
    /\ main_pc = "polling"
    /\ \E e \in Exceptions :
        /\ crashes' = Append(crashes, e)
        /\ retry_count' = retry_count + 1
        /\ IF retry_count' < max_retries
           THEN /\ wait_time' = WaitTime(retry_count')
                /\ main_pc' = "sleep"
                /\ UNCHANGED uncaught
           ELSE /\ main_pc' = "raised"
                /\ uncaught' = e
                /\ UNCHANGED wait_time
    /\ UNCHANGED <<starts, slept, botVars, cropVars>>

\* line 483: time.sleep(wait_time) returns
main_sleep ==
    /\ main_pc = "sleep"
    /\ slept' = Append(slept, wait_time)
    /\ main_pc' = "while"
    /\ UNCHANGED <<retry_count, wait_time, starts, crashes, uncaught, botVars, cropVars>>

\* line 483: KeyboardInterrupt during time.sleep is outside the try and
\* leaves main
main_sleep_interrupted ==
    /\ main_pc = "sleep"
    /\ main_pc' = "raised"
    /\ uncaught' = "KeyboardInterrupt"
    /\ UNCHANGED <<retry_count, wait_time, starts, slept, crashes, botVars, cropVars>>

NextMain ==
    \/ main_while
    \/ run_polling_ends
    \/ run_polling_crashes
    \/ main_sleep
    \/ main_sleep_interrupted

\* main before its loop, no handler running yet
InitSupervision == InitBot /\ InitNoPage /\ InitMain

SpecMain == InitSupervision /\ [][NextMain]_vars

\* ------------------------------------------------------------------ claims
\* clear_pages is at work: the store is cleared, the reply not yet sent
Clearing == pc \in {"clear_loop", "clear_remove"}

IngestFailures ==
    {"too_large", "getfile_timeout", "getfile_network", "download_timeout",
     "download_network", "render_error", "extract_error"}

\* the store is made of whole batches: entry i is page k of an n-page
\* ingestion only between that ingestion's pages 1..k-1 and k+1..n
WholeBatches ==
    /\ Len(owner) = Len(all_processed_pages)
    /\ \A i \in DOMAIN owner :
        LET k == owner[i][1]
            n == owner[i][2]
        IN  /\ 1 <= k /\ k <= n
            /\ i - k + n <= Len(owner)
            /\ \A m \in 1..n : owner[i - k + m] = <<m, n>>

\* C1: a successful handle_pdf of a document that renders to N pages leaves
\* the store N entries longer than it found it, the old entries kept, and
\* reports N pages added and the new store size as the total, which is also
\* what status reports.
Thm_C1 ==
    /\ (last.op = "ingest" /\ last.result = "ok" /\ ~Clearing) =>
        /\ Len(all_processed_pages) = Len(last.before) + last.n
        /\ SubSeq(all_processed_pages, 1, Len(last.before)) = last.before
        /\ last.n >= 1
        /\ owner[Len(owner)] = <<last.n, last.n>>
        /\ last.total = Len(all_processed_pages)
    /\ (last.op = "status" /\ pc = "idle") => last.total = Len(all_processed_pages)

Wit_C1 ==
    /\ last.op = "ingest" /\ last.result = "ok"
    /\ last.n = 2
    /\ Len(last.before) >= 1

\* C2: a handle_pdf that fails (size over the limit, get_file or download
\* timeout or network error, render error, extraction raising on a page)
\* leaves the store as it found it and reports nothing added; the store
\* always consists of whole batches.
Thm_C2 ==
    /\ (last.op = "ingest" /\ last.result \in IngestFailures /\ ~Clearing) =>
        /\ all_processed_pages = last.before
        /\ last.n = 0
        /\ last.total = Len(last.before)
    /\ WholeBatches

\* an extraction that raised on a later page, after earlier pages were saved
Wit_C2 ==
    /\ last.op = "ingest" /\ last.result = "extract_error"
    /\ \E p \in last.created : p.kind = "quadrant"
    /\ Len(last.before) >= 1

\* C3: when a handle_pdf call has reported failure, no file it wrote (the
\* download, the quadrants of earlier pages) is left in TEMP_DIR.
Cex_C3 ==
    (pc = "idle" /\ last.op = "ingest" /\ last.result \in IngestFailures) =>
        \A p \in last.created : ~Exists(files, p)

\* C4: the sweep removes no file whose path is in the store, so every path
\* in the store names a file that exists.
Cex_C4 == \A i \in DOMAIN all_processed_pages : Exists(files, all_processed_pages[i])

\* C5: clear_pages reports the count status last reported for the store it
\* clears, which is the length of that store, and leaves the store empty; a
\* status issued after it, before any append, reports 0.
Thm_C5 ==
    /\ last.op = "clear" =>
        /\ last.stats # -1 => last.n = last.stats
        /\ last.n = Len(last.before)
        /\ cleared = last.n
        /\ all_processed_pages = <<>>
    /\ (last.op = "status" /\ cleared # -1) => last.total = 0

\* a status that follows a clear_pages which removed two pages
Wit_C5 ==
    /\ last.op = "status"
    /\ cleared = 2

\* C6: while the store is unchanged, every send_combined_pdf composes the
\* same document (same pages, same order) as the first one did.
Cex_C6 ==
    (last.op = "send" /\ last.result # "empty" /\ firstExport # NoDoc) =>
        last.doc = firstExport

\* C7: send_combined_pdf on a store of n >= 1 entries composes n pages,
\* page j from the j-th entry of the store.
Cex_C7 ==
    (last.op = "send" /\ last.result # "empty") => last.doc = last.before

\* C8: send_combined_pdf on an empty store returns with the empty outcome
\* at once: create_pdf_from_images is not entered and TEMP_DIR is unchanged.
Thm_C8 ==
    [][(nExport' # nExport /\ all_processed_pages = <<>>) =>
          /\ pc' = "idle"
          /\ last'.op = "send" /\ last'.result = "empty"
          /\ last'.output = NoPath
          /\ files' = files]_vars

\* an empty send while TEMP_DIR holds files
Wit_C8 ==
    /\ pc = "idle"
    /\ last.op = "send" /\ last.result = "empty"
    /\ DOMAIN files # {}

\* C9: a send_combined_pdf that succeeds has transmitted a document of at
\* least one page.
Cex_C9 == (last.op = "send" /\ last.result = "ok") => last.doc # <<>>

\* C10: a send_combined_pdf whose composed document is larger than 50 MiB
\* reports too_large, has not transmitted it, has removed the composed file
\* and has left the store as it found it; no oversize document reaches
\* reply_document.
Thm_C10 ==
    /\ (pc = "idle" /\ last.op = "send" /\ last.size > OutboundLimit) =>
        /\ last.result = "too_large"
        /\ ~last.sent
        /\ last.output # NoPath /\ ~Exists(files, last.output)
        /\ all_processed_pages = last.before
    /\ pc = "transmit" => file_size <= OutboundLimit

Wit_C10 ==
    /\ pc = "idle"
    /\ last.op = "send" /\ last.result = "too_large"
    /\ Len(last.before) >= 2
\* C11: the store is a sequence of whole batches: the pages of one
\* ingestion stand together, in page order, under that ingestion's
\* timestamp, and the store a send_combined_pdf iterates over is the whole
\* store it found on entry.
Thm_C11 ==
    /\ Len(owner) = Len(all_processed_pages)
    /\ \A i \in DOMAIN owner :
        LET k == owner[i][1]
            n == owner[i][2]
            first == i - k + 1
        IN  /\ 1 <= first /\ first + n - 1 <= Len(owner)
            /\ \A m \in 1..n :
                /\ owner[first + m - 1] = <<m, n>>
                /\ all_processed_pages[first + m - 1] =
                       QuadrantPath(all_processed_pages[first].ts, m - 1)
    /\ pc \in {"compose", "transmit", "finally"} => entry = all_processed_pages

\* a send_combined_pdf at work on a store of two batches, one of two pages
Wit_C11 ==
    /\ pc = "compose"
    /\ Len(owner) = 3
    /\ image_idx = 1
\* C12: once clear_pages has replied, the store is empty and no file of an
\* entry it removed from the store is left in TEMP_DIR.
Cex_C12 ==
    (pc = "idle" /\ last.op = "clear") =>
        /\ all_processed_pages = <<>>
        /\ \A i \in DOMAIN last.before : ~Exists(files, last.before[i])
\* C13: once send_combined_pdf has returned, whatever its outcome, no file
\* it wrote (the composed document, the resized copies) is left in TEMP_DIR.
Cex_C13 ==
    (pc = "idle" /\ last.op = "send") => \A p \in last.created : ~Exists(files, p)

\* C14: a step changes all_processed_pages only when it is the append of
\* handle_pdf, which adds the pages of the batch it reports after the
\* entries already there, or the clear of clear_pages, which leaves the
\* store empty; every step of send_combined_pdf, status, health_check, the
\* keep-alive sweep and the clock leaves the store as it was.
Thm_C14 ==
    [][ \/ all_processed_pages' = all_processed_pages
        \/ /\ pc = "extract"
           /\ last'.op = "ingest" /\ last'.n > 0
           /\ Len(all_processed_pages') = Len(all_processed_pages) + last'.n
           /\ SubSeq(all_processed_pages', 1, Len(all_processed_pages)) = all_processed_pages
        \/ /\ pc = "idle" /\ pc' = "clear_loop"
           /\ all_processed_pages' = <<>> ]_vars

\* a send_combined_pdf that has sent its document, the store still holding
\* its three entries
Wit_C14 ==
    /\ pc = "idle"
    /\ last.op = "send" /\ last.sent
    /\ Len(all_processed_pages) = 3
    /\ all_processed_pages = last.before

\* C15: the first step of handle_pdf writes no file; a document whose
\* declared size is over 20 MiB is rejected in that step, before get_file,
\* the download and the extraction; a document that gets past the check has a
\* declared size of at most 20 MiB.
Thm_C15 ==
    [][ nIngest' # nIngest =>
          /\ files' = files
          /\ pdf_path' = NoPath
          /\ all_processed_pages' = all_processed_pages
          /\ \/ /\ pc' = "idle"
                /\ last'.result = "too_large"
                /\ last'.size > InboundLimit
                /\ last'.tried = 0 /\ last'.created = {}
             \/ /\ pc' = "idle"
                /\ last'.result \in {"getfile_timeout", "getfile_network"}
                /\ last'.size <= InboundLimit
             \/ /\ pc' = "download"
                /\ declared' <= InboundLimit ]_vars

\* a document over the limit rejected while the store holds pages
Wit_C15 ==
    /\ pc = "idle"
    /\ last.op = "ingest" /\ last.result = "too_large"
    /\ last.size > InboundLimit
    /\ last.before # <<>>

\* C17: no two entries of the store are the same path.
Cex_C17 ==
    \A i, j \in DOMAIN all_processed_pages :
        i # j => all_processed_pages[i] # all_processed_pages[j]

\* C18: when every rasterizer configuration has failed, the error that
\* handle_pdf reports carries the failures of all three.
Cex_C18 ==
    (last.op = "ingest" /\ last.result = "render_error" /\ last.tried = 3) =>
        last.errors = 1..3

\* C19: the page count in the caption of a document that was sent is the
\* number of pages of that document.
Cex_C19 ==
    (last.op = "send" /\ last.sent) => last.n = Len(last.doc)

====
